---- MODULE Spec2Model ----
(***************************************************************************)
(* AD log reconciliation pipeline of leasing-core (it_tools).              *)
(*                                                                         *)
(* State: the ADLogAnalysis rows, the GIDDiscrepancy rows, the user        *)
(* directory, the progress cache, the file store (source share, per-run    *)
(* working directories, output folders) and, per request worker, the       *)
(* position in ad_log_run_analysis / ADLogService.run_full_analysis with   *)
(* the in-memory model instance and service fields.                        *)
(*                                                                         *)
(* A worker step is the code between two consecutive saves of the          *)
(* ADLogAnalysis row: the stage call together with the save that follows.  *)
(***************************************************************************)
EXTENDS Integers, Sequences, FiniteSets, Bags, TLC

VARIABLES
    db,          \* ADLogAnalysis rows, by pk
    disc,        \* GIDDiscrepancy rows: a bag of [analysis, gid, source_file]
    pfiles,      \* ProcessedADFile rows: a bag of [analysis, original_filename]
    users,       \* gid values of the User rows (may hold "" for a blank gid)
    cache,       \* django cache: ad_log_progress_<pk> -> progress record
    srcdir,      \* files present on the source share
    tmp,         \* MEDIA_ROOT/ad_logs/temp/analysis_<pk>: existence and files
    out,         \* the output folder of the period
    pc,          \* per worker: position in the request handler
    wrun,        \* per worker: pk of the analysis the request is about
    obj,         \* per worker: the in-memory ADLogAnalysis instance
    svc,         \* per worker: the ADLogService instance fields
    seen,        \* per worker: the status the view found when it loaded the row
    stages,      \* per worker: stage methods called so far in this invocation
    resp,        \* the JsonResponse the last step returned (NoResponse: none)
    env,         \* the deployment: which of openpyxl and pandas can be imported,
                 \* and the minute datetime.now() falls in
    paths,       \* PathDefinition and ADLogEmailTemplate rows, by table and pk
    saver,       \* per admin request: the instance being saved and its position
    fn,          \* a service method applied on its own: arguments and result
    poll         \* the event stream of ad_log_progress: position and locals

\* the analysis pipeline's part of the state
store == <<db, disc, pfiles, users, cache, srcdir, tmp, out, pc, wrun, obj, svc, seen, stages, resp>>

\* the part of the state the pipeline's requests leave alone
aux == <<env, paths, saver, fn, poll>>

vars == <<store, aux>>

-----------------------------------------------------------------------------
(* Bounds and input domains *)

\* the source share holds at most MaxSrcFiles files of the period
MaxSrcFiles == 2

Runs == {1, 2}
Workers == {1, 2}
Gids == {"g1", "g2"}
FileDays == {1, 2}
Exts == <<"xlsx", "xls", "xlsm">>
ExtSet == {Exts[i] : i \in 1..Len(Exts)}
\* the month the files on the share are exports of, and the analysed periods
SharePeriod == <<2025, 12>>
Periods == {SharePeriod}
SourcePaths == {"", "share", "gone"}
None == "None"

-----------------------------------------------------------------------------
(* ADLogAnalysis.STATUS_CHOICES *)

STATUS_CHOICES ==
    <<"pending", "downloading", "processing", "comparing",
      "completed", "email_pending", "email_sent", "failed">>

\* position of a status in STATUS_CHOICES
Rank(s) == CHOOSE i \in 1..Len(STATUS_CHOICES) : STATUS_CHOICES[i] = s

-----------------------------------------------------------------------------
(* The ServiceResult that self.error(...) / self.success(...) hand back to  *)
(* the caller, which reads .success, .message and .data                    *)

error(message) == [success |-> FALSE, message |-> message]

success(data) == [success |-> TRUE, message |-> "", data |-> data]

-----------------------------------------------------------------------------
(* calendar.monthrange *)

IsLeap(y) == (y % 4 = 0) /\ ((y % 100 # 0) \/ (y % 400 = 0))

DaysInMonth(y, m) ==
    IF m = 2 THEN (IF IsLeap(y) THEN 29 ELSE 28)
    ELSE IF m \in {4, 6, 9, 11} THEN 30 ELSE 31

-----------------------------------------------------------------------------
(* ADLogService.get_expected_filenames.  A name is the sequence of its     *)
(* characters.                                                             *)

FILE_PREFIX == <<"E", "v", "e", "n", "t", "E", "x", "p", "o", "r", "t", "_">>

DecimalDigits == <<"0", "1", "2", "3", "4", "5", "6", "7", "8", "9">>

\* f"{n}": the decimal digits of n >= 0
RECURSIVE decimal(_)
decimal(n) ==
    IF n < 10 THEN <<DecimalDigits[n + 1]>>
    ELSE decimal(n \div 10) \o <<DecimalDigits[(n % 10) + 1]>>

\* zero_padded without the padding: f"{n}" in place of f"{n:02d}"
\* (C14_ExpectedNamesOfMonth depends on the padding)
zero_padded_not(s, w) == s

\* the width of f"{n:02d}": zeros in front up to w characters
RECURSIVE zero_padded(_, _)
zero_padded(s, w) == IF Len(s) >= w THEN s ELSE zero_padded(<<"0">> \o s, w)

\* f"{year}-{month:02d}-{day:02d}"
date_str(y, m, d) ==
    decimal(y) \o <<"-">> \o zero_padded(decimal(m), 2) \o <<"-">> \o zero_padded(decimal(d), 2)

\* one base name per calendar day, in day order
get_expected_filenames(y, m) ==
    [i \in 1..DaysInMonth(y, m) |-> FILE_PREFIX \o date_str(y, m, i)]

-----------------------------------------------------------------------------
(* Files.  An export file is named after its date, with an extension; a    *)
(* file is a name with the revision of its content: rev 1 is the export as *)
(* first written, rev 2 a re-export of the same name whose column D is     *)
(* empty.  A directory holds at most one file per name.                    *)

Files == [year : {SharePeriod[1]}, month : {SharePeriod[2]}, day : FileDays, ext : ExtSet, rev : {1, 2}]

NameOf(f) == [year |-> f.year, month |-> f.month, day |-> f.day, ext |-> f.ext]

\* the name without its extension, as written on the share
BaseName(f) == FILE_PREFIX \o date_str(f.year, f.month, f.day)

\* whether pandas/openpyxl can open the file
Readable(f) ==
    IF f.rev = 2 THEN TRUE
    ELSE IF f.ext = "xlsx" THEN TRUE
    ELSE IF f.ext = "xls" THEN f.day % 2 = 1
    ELSE f.day % 2 = 0

\* the column D cells below the header row
CellsOf(f) ==
    IF f.rev = 2 THEN <<>>
    ELSE IF f.ext = "xlsx" THEN
        (IF f.day % 2 = 1 THEN <<"g1", " g1", "g1">> ELSE <<"g1", "g2">>)
    ELSE IF f.ext = "xls" THEN <<"", " ">>
    ELSE <<"g2 ">>

\* str.strip on the cell values that occur
strip(c) ==
    CASE c = " g1" -> "g1"
      [] c = "g2 " -> "g2"
      [] c = " "   -> ""
      [] OTHER     -> c

ExtIdx(e) == CHOOSE i \in 1..Len(Exts) : Exts[i] = e

\* shutil.copy2 of the files fs into a directory: same names are overwritten
CopyInto(files, fs) ==
    {f \in files : \A g \in fs : NameOf(g) # NameOf(f)} \cup fs

\* the files of a directory in glob order: by pattern '*.xlsx', '*.xls',
\* '*.xlsm', then by name
RECURSIVE FileSeq(_)
FileSeq(S) ==
    IF S = {} THEN <<>>
    ELSE LET f == CHOOSE x \in S : \A y \in S :
                     \/ ExtIdx(x.ext) < ExtIdx(y.ext)
                     \/ (x.ext = y.ext /\ x.day <= y.day)
         IN <<f>> \o FileSeq(S \ {f})

RECURSIVE Concat(_)
Concat(ss) == IF ss = <<>> THEN <<>> ELSE Head(ss) \o Concat(Tail(ss))

-----------------------------------------------------------------------------
(* ADLogService.update_progress *)

update_progress(step, progress) == [step |-> step, progress |-> progress]

NoProgress == [step |-> None, progress |-> 0]

-----------------------------------------------------------------------------
(* ADLogService.download_files_to_temp *)

\* os.path.exists(source_path/filename_base + ext)
Present(dir, base, e) == \E f \in dir : BaseName(f) = base /\ f.ext = e

\* the first extension, in the order .xlsx, .xls, .xlsm, under which the
\* base name exists in the source directory (0: none); shutil.copy2 of a
\* file that exists succeeds
FirstExt(dir, base) ==
    IF \E i \in 1..Len(Exts) : Present(dir, base, Exts[i])
    THEN CHOOSE i \in 1..Len(Exts) :
            /\ Present(dir, base, Exts[i])
            /\ \A j \in 1..(i - 1) : ~Present(dir, base, Exts[j])
    ELSE 0

\* downloaded_files: the file copied for each expected name that has one
Downloaded(dir, expected) ==
    {f \in dir :
        LET base == BaseName(f)
        IN /\ \E k \in DOMAIN expected : expected[k] = base
           /\ f.ext = Exts[FirstExt(dir, base)]}

\* not_found_files: the expected names that exist under no extension, in
\* day order
NotFound(dir, expected) ==
    LET bases == {BaseName(f) : f \in dir}
    IN SelectSeq(expected, LAMBDA base : base \notin bases)

\* the slice not_found_files[:10] of the result
First10(names) == SubSeq(names, 1, IF Len(names) < 10 THEN Len(names) ELSE 10)

\* download_files_to_temp without the test of lines 156-157: an empty
\* download is a success (C8_NoFilesAbortsAtDownload depends on the test)
download_files_to_temp_any(source_path, dir, y, m) ==
    IF source_path # "share" THEN error("source_missing")
    ELSE LET expected == get_expected_filenames(y, m)
             got == Downloaded(dir, expected)
             not_found_files == NotFound(dir, expected)
         IN success([downloaded_count |-> Cardinality(got),
                     not_found_count |-> Len(not_found_files),
                     downloaded_files |-> got,
                     not_found_files |-> First10(not_found_files)])

\* result of the download stage; the copies are the value's downloaded_files
download_files_to_temp(source_path, dir, y, m) ==
    IF source_path # "share" THEN error("source_missing")
    ELSE LET expected == get_expected_filenames(y, m)
             got == Downloaded(dir, expected)
             not_found_files == NotFound(dir, expected)
         IN IF got = {} THEN error("no_files_for_period")
            ELSE success([downloaded_count |-> Cardinality(got),
                          not_found_count |-> Len(not_found_files),
                          downloaded_files |-> got,
                          not_found_files |-> First10(not_found_files)])

\* last progress record the download stage publishes
DownloadProgress(res) ==
    IF res.success THEN update_progress("downloading", 100)
    ELSE update_progress("downloading", 0)

-----------------------------------------------------------------------------
(* ADLogService._extract_gids_from_column_d and process_downloaded_files *)

\* one GIDRecord per non-empty cell after strip; [] for a file that cannot
\* be opened (the exception is logged inside the method)
extract_gids_from_column_d(f) ==
    IF ~Readable(f) THEN <<>>
    ELSE LET kept == SelectSeq(CellsOf(f), LAMBDA c : c # "" /\ strip(c) # "")
         IN [i \in 1..Len(kept) |-> [gid |-> strip(kept[i]), source_file |-> NameOf(f)]]

\* ProcessedOf counting every staged file
\* (C16_UnreadableFileIsSkipped depends on the test `if gids:`)
ProcessedOf_every(files) == files

\* the files that yield at least one record: only these are counted
ProcessedOf(files) == {f \in files : extract_gids_from_column_d(f) # <<>>}

RecordsOf(files) ==
    LET fs == FileSeq(ProcessedOf(files))
    IN Concat([i \in 1..Len(fs) |-> extract_gids_from_column_d(fs[i])])

GidsOf(records) == {records[i].gid : i \in DOMAIN records}

\* result of the extraction stage over the working directory td
process_downloaded_files(td, e) ==
    IF ~e.openpyxl /\ ~e.pandas THEN error("library_missing")
    ELSE IF ~td.exists THEN error("temp_dir_missing")
    ELSE IF td.files = {} THEN error("no_excel_in_temp")
    ELSE LET recs == RecordsOf(td.files)
         IN success([processed_files |-> Cardinality(ProcessedOf(td.files)),
                     total_gids |-> Len(recs),
                     unique_gids |-> Cardinality(GidsOf(recs)),
                     records |-> recs])

ProcessProgress(res) ==
    IF res.success THEN update_progress("processing", 100)
    ELSE update_progress("processing", 0)

-----------------------------------------------------------------------------
(* ADLogService.compare_with_user_gids *)

\* User.objects.exclude(gid__isnull=True).exclude(gid='')
user_gids(us) == us \ {""}

\* unmatched_gids without the set difference of line 307
\* (C5_MissingIsFoundMinusSystem depends on the difference)
unmatched_gids_all(gids_from_files, ugids) == gids_from_files

unmatched_gids(gids_from_files, ugids) == gids_from_files \ ugids

\* sources with the file of the first record that carries gid only
\* (C15_MissingReportedOnceWithItsFiles depends on collecting every file)
sources_first(records, gid) ==
    LET first == CHOOSE j \in DOMAIN records :
                     /\ records[j].gid = gid
                     /\ \A k \in 1..(j - 1) : records[k].gid # gid
    IN {records[first].source_file}

\* the distinct source files of the records that carry gid
sources(records, gid) ==
    {records[i].source_file : i \in {j \in DOMAIN records : records[j].gid = gid}}

discrepancies(records, unmatched) ==
    {[gid |-> g, source_files |-> sources(records, g)] : g \in unmatched}

compare_with_user_gids(gids_from_files, records, us) ==
    IF gids_from_files = {} THEN error("process_excel_first")
    ELSE LET um == unmatched_gids(gids_from_files, user_gids(us))
         IN success([total_in_files |-> Cardinality(gids_from_files),
                     total_user_gids |-> Cardinality(user_gids(us)),
                     unmatched_count |-> Cardinality(um),
                     matched_count |-> Cardinality(gids_from_files) - Cardinality(um),
                     unmatched_gids |-> um,
                     discrepancies |-> discrepancies(records, um)])

\* the GIDDiscrepancy rows of analysis r
RowsOf(rows, r) == {x \in BagToSet(rows) : x.analysis = r}

\* GIDDiscrepancy.objects.filter(analysis=...).delete()
DeleteRows(rows, r) ==
    [x \in BagToSet(rows) \ RowsOf(rows, r) |-> rows[x]]

\* GIDDiscrepancy.objects.create(...) for every discrepancy
CreateRows(rows, r, ds) ==
    rows (+) SetToBag({[analysis |-> r, gid |-> d.gid, source_file |-> d.source_files] : d \in ds})

\* the rows after the stage: replaced on success, untouched on the early error
ReplaceRows(rows, r, res) ==
    IF res.success THEN CreateRows(DeleteRows(rows, r), r, res.data.discrepancies)
    ELSE rows

CompareProgress(res) ==
    IF res.success THEN update_progress("comparing", 100)
    ELSE update_progress("comparing", 0)

-----------------------------------------------------------------------------
(* ADLogService.save_outputs: the four writer steps in order.  fail_at = k *)
(* is an I/O exception raised inside step k (0: none); the artifacts of    *)
(* the steps before k stay written.                                        *)

\* step 1: glob(temp_dir/*.xls*) copied into <output>/excels
CopyExcels(o, td) == [o EXCEPT !.excels = CopyInto(@, td.files)]

\* step 2: _save_user_gids_excel, one row per user that has a gid, written
\* to kullanici_gidleri.xlsx; without openpyxl it returns an error result
\* and writes nothing
SaveUserGids(o, us, e) ==
    IF e.openpyxl THEN [o EXCEPT !.user_gids_file = {user_gids(us)}] ELSE o

\* step 3: _save_unique_gids_excel, one row per found gid with its sources,
\* written to ad_log_gidleri.xlsx; without openpyxl as step 2
SaveUniqueGids(o, records, e) ==
    IF e.openpyxl
    THEN [o EXCEPT !.unique_gids_file =
             {{[gid |-> g, source_files |-> sources(records, g)] : g \in GidsOf(records)}}]
    ELSE o

\* the name of the text report: log_<year>_<month>_<day, month, year, hour
\* and minute of now>.txt
log_filename(a, now) == [year |-> a.year, month |-> a.month, stamp |-> now]

\* open(filepath, 'w') in a folder: the file of that name is replaced, the
\* others stay
WriteFile(folder, file) == {g \in folder : g.name # file.name} \cup {file}

\* step 4: _save_discrepancy_log, the text report
SaveDiscrepancyLog(o, a, r, us, rows, e) ==
    [o EXCEPT !.log_file =
        WriteFile(@, [name |-> log_filename(a, e.now),
                      unique_gids |-> a.unique_gids_count,
                      system_gids |-> Cardinality(user_gids(us)),
                      unmatched |-> {x.gid : x \in RowsOf(rows, r)}])]

\* the sub-results of steps 2 to 4 are looked at only to record the path of
\* the written file: an error result of a step does not stop save_outputs
save_outputs(o, td, a, r, us, records, rows, e, fail_at) ==
    LET o1 == IF fail_at = 1 THEN o ELSE CopyExcels(o, td)
        o2 == IF fail_at \in 1..2 THEN o1 ELSE SaveUserGids(o1, us, e)
        o3 == IF fail_at \in 1..3 THEN o2 ELSE SaveUniqueGids(o2, records, e)
        o4 == IF fail_at \in 1..4 THEN o3 ELSE SaveDiscrepancyLog(o3, a, r, us, rows, e)
    IN o4

save_outputs_result(fail_at) ==
    IF fail_at = 0 THEN success(None) ELSE error("save_error")

SaveProgress(fail_at) ==
    IF fail_at = 0 THEN update_progress("saving", 100)
    ELSE update_progress("saving", 20 * fail_at)

-----------------------------------------------------------------------------
(* State after construction *)

NewAnalysis(source_path, period) ==
    [status |-> "pending", error_message |-> None,
     source_path |-> source_path, year |-> period[1], month |-> period[2],
     processed_files_count |-> 0, total_gids_found |-> 0,
     unique_gids_count |-> 0, discrepancy_count |-> 0,
     email_to |-> None, email_cc |-> None, email_subject |-> None,
     email_body |-> None, email_sent_at |-> None]

NoAnalysis == NewAnalysis("", <<0, 0>>)

\* ADLogService.__init__ (unmatched: compare_result of run_full_analysis)
NewService ==
    [gids_from_files |-> {}, gid_records |-> <<>>, processed_files |-> {},
     temp_dir |-> FALSE, unmatched |-> {}]

NoResponse == [op |-> None, success |-> FALSE, error |-> None]

EmptyDir == [exists |-> FALSE, files |-> {}]

EmptyOut == [excels |-> {}, user_gids_file |-> {}, unique_gids_file |-> {}, log_file |-> {}]

\* Run 1 is newly created.  Run 2 is an analysis of the same path entry and
\* period that ran to the end earlier, when the share held only the .xlsx
\* file of day 2 and g1 was the only gid in the user directory: its row,
\* discrepancy row, progress record and artifacts are the ones that run left.
EarlierFiles ==
    {[year |-> SharePeriod[1], month |-> SharePeriod[2], day |-> 2, ext |-> "xlsx", rev |-> 1]}
EarlierUsers == {"", "g1"}
EarlierRows ==
    SetToBag({[analysis |-> 2, gid |-> "g2",
               source_file |-> {NameOf(f) : f \in EarlierFiles}]})
EarlierAnalysis(period) ==
    [NewAnalysis("share", period) EXCEPT
        !.status = "email_pending",
        !.processed_files_count = 1, !.total_gids_found = 2,
        !.unique_gids_count = 2, !.discrepancy_count = 1]

\* both libraries installed (the try/except ImportError at import time)
AllLibraries == [openpyxl |-> TRUE, pandas |-> TRUE]

\* the minutes datetime.now() can fall in: that of the earlier run and a
\* later one
Minutes == {1, 2}
EarlierMinute == CHOOSE t \in Minutes : \A u \in Minutes : t <= u
LaterMinute == CHOOSE t \in Minutes : \A u \in Minutes : u <= t

Deployment(libs, now) == [openpyxl |-> libs.openpyxl, pandas |-> libs.pandas, now |-> now]

\* no PathDefinition or template request and no separate method call going on
NoRows == [t \in {"PathDefinition", "ADLogEmailTemplate"} |-> <<>>]
NoSaver == <<>>
NoCall == [op |-> None]

\* no client is connected to the progress stream
NoPoll == [at |-> "none"]

InitAux ==
    /\ env = Deployment(AllLibraries, LaterMinute)
    /\ paths = NoRows
    /\ saver = NoSaver
    /\ fn = NoCall
    /\ poll = NoPoll

InitWorkers ==
    /\ pc = [w \in Workers |-> "idle"]
    /\ wrun = [w \in Workers |-> 0]
    /\ obj = [w \in Workers |-> NoAnalysis]
    /\ svc = [w \in Workers |-> NewService]
    /\ seen = [w \in Workers |-> None]
    /\ stages = [w \in Workers |-> <<>>]
    /\ resp = NoResponse

InitStore(sp, per) ==
    /\ db = [r \in Runs |-> IF r = 1 THEN NewAnalysis(sp, per) ELSE EarlierAnalysis(per)]
    /\ out = save_outputs(EmptyOut, [exists |-> TRUE, files |-> EarlierFiles],
                          EarlierAnalysis(per), 2, EarlierUsers,
                          RecordsOf(EarlierFiles), EarlierRows,
                          Deployment(AllLibraries, EarlierMinute), 0)
    /\ disc = EarlierRows
    /\ pfiles = EmptyBag
    /\ cache = [r \in Runs |-> IF r = 1 THEN NoProgress ELSE update_progress("completed", 100)]
    /\ tmp = [r \in Runs |-> EmptyDir]

Init ==
    /\ \E sp \in SourcePaths, per \in Periods : InitStore(sp, per)
    /\ \E S \in SUBSET Gids : users = S \cup {""}
    /\ srcdir \in {S \in SUBSET {f \in Files : f.rev = 1} : Cardinality(S) <= MaxSrcFiles}
    /\ InitWorkers
    /\ InitAux

-----------------------------------------------------------------------------
(* views.ad_log_run_analysis and ADLogService.run_full_analysis *)

RunResponse(ok, msg) == [op |-> "run", success |-> ok, error |-> msg]

\* statuses on which the view refuses to run the analysis
AlreadyProcessed == {"completed", "email_pending", "email_sent"}

\* Failed without the status assignment: only the message is stored
\* (C2_StagesInOrderFailureStops depends on the assignment)
Failed_message_only(a, msg) == [a EXCEPT !.error_message = msg]

\* the row a failed stage leaves: status failed with the stage's message
Failed(a, msg) == [a EXCEPT !.status = "failed", !.error_message = msg]

\* the row saved after the extraction stage: status comparing and counters
Extracted(a, data) ==
    [a EXCEPT !.status = "comparing",
              !.processed_files_count = data.processed_files,
              !.total_gids_found = data.total_gids,
              !.unique_gids_count = data.unique_gids]

\* the row saved after the reconciliation stage
Compared(a, data) == [a EXCEPT !.discrepancy_count = data.unmatched_count]

\* the row saved after the output stage
Completed(a) == [a EXCEPT !.status = "completed", !.error_message = None]

\* the worker is back in the pool: the request's objects are gone
Release(w) ==
    /\ pc' = [pc EXCEPT ![w] = "idle"]
    /\ wrun' = [wrun EXCEPT ![w] = 0]
    /\ obj' = [obj EXCEPT ![w] = NoAnalysis]
    /\ svc' = [svc EXCEPT ![w] = NewService]
    /\ seen' = [seen EXCEPT ![w] = None]

\* left_on_failure with a cleanup on the failure returns
\* (C11_WorkingDirKeptUntilCompleted depends on there being none)
left_on_failure_cleaned(td) == EmptyDir

\* the working directory after a failure return of run_full_analysis:
\* cleanup_temp_directory is called on the success path only
left_on_failure(td) == td

\* get_temp_directory with one directory for every analysis
\* (C23_RunsKeepToTheirOwnDirectory depends on the pk in the name)
get_temp_directory_shared(pk) == CHOOSE r \in Runs : \A q \in Runs : r <= q

\* MEDIA_ROOT/ad_logs/temp/analysis_<pk>: the directory is keyed by the pk
get_temp_directory(pk) == pk

\* a failed stage result: the service, then the view, save status failed with
\* the message, and the view returns the error; td is the working directory
\* as the stage left it
FailRun(w, msg, td) ==
    /\ db' = [db EXCEPT ![wrun[w]] = Failed(obj[w], msg)]
    /\ tmp' = [tmp EXCEPT ![get_temp_directory(wrun[w])] = left_on_failure(td)]
    /\ resp' = RunResponse(FALSE, msg)
    /\ Release(w)

\* get_object_or_404, the already-processed check, status = 'processing', save
Trigger(w, r) ==
    /\ pc[w] = "idle"
    /\ IF db[r].status \in AlreadyProcessed
       THEN /\ resp' = RunResponse(FALSE, "already_completed")
            /\ UNCHANGED <<db, pc, wrun, obj, svc, seen, stages>>
       ELSE /\ db' = [db EXCEPT ![r].status = "processing"]
            /\ obj' = [obj EXCEPT ![w] = [db[r] EXCEPT !.status = "processing"]]
            /\ pc' = [pc EXCEPT ![w] = "view"]
            /\ wrun' = [wrun EXCEPT ![w] = r]
            /\ svc' = [svc EXCEPT ![w] = NewService]
            /\ seen' = [seen EXCEPT ![w] = db[r].status]
            /\ stages' = [stages EXCEPT ![w] = <<>>]
            /\ resp' = NoResponse
    /\ UNCHANGED <<disc, pfiles, users, cache, srcdir, tmp, out>>
    /\ UNCHANGED aux

\* source path resolution; then run_full_analysis up to its first save
Start(w) ==
    /\ pc[w] = "view"
    /\ IF obj[w].source_path = ""
       THEN /\ resp' = RunResponse(FALSE, "no_source_path")
            /\ Release(w)
            /\ UNCHANGED <<db, cache>>
       ELSE /\ cache' = [cache EXCEPT ![wrun[w]] = update_progress("initializing", 0)]
            /\ obj' = [obj EXCEPT ![w].status = "downloading"]
            /\ db' = [db EXCEPT ![wrun[w]] = [obj[w] EXCEPT !.status = "downloading"]]
            /\ pc' = [pc EXCEPT ![w] = "download"]
            /\ resp' = NoResponse
            /\ UNCHANGED <<wrun, svc, seen>>
    /\ UNCHANGED <<disc, pfiles, users, srcdir, tmp, out, stages>>
    /\ UNCHANGED aux

\* stage 1: download_files_to_temp, then status = 'processing'
Download(w) ==
    /\ pc[w] = "download"
    /\ LET r == wrun[w]
           res == download_files_to_temp(obj[w].source_path, srcdir, obj[w].year, obj[w].month)
       IN /\ stages' = [stages EXCEPT ![w] = Append(@, "download")]
          /\ cache' = [cache EXCEPT ![r] = DownloadProgress(res)]
          /\ IF res.success
             THEN /\ tmp' = [tmp EXCEPT ![get_temp_directory(r)] =
                              [exists |-> TRUE,
                               files |-> CopyInto(@.files, res.data.downloaded_files)]]
                  /\ svc' = [svc EXCEPT ![w].temp_dir = TRUE]
                  /\ obj' = [obj EXCEPT ![w].status = "processing"]
                  /\ db' = [db EXCEPT ![r] = [obj[w] EXCEPT !.status = "processing"]]
                  /\ pc' = [pc EXCEPT ![w] = "process"]
                  /\ resp' = NoResponse
                  /\ UNCHANGED <<wrun, seen>>
             ELSE FailRun(w, res.message,
                          [tmp[get_temp_directory(r)] EXCEPT !.exists = @ \/ obj[w].source_path = "share"])
    /\ UNCHANGED <<disc, pfiles, users, srcdir, out>>
    /\ UNCHANGED aux

\* stage 2: process_downloaded_files, then status = 'comparing' with counters
Process(w) ==
    /\ pc[w] = "process"
    /\ LET r == wrun[w]
           res == process_downloaded_files(tmp[get_temp_directory(r)], env)
       IN /\ stages' = [stages EXCEPT ![w] = Append(@, "process")]
          /\ cache' = [cache EXCEPT ![r] = ProcessProgress(res)]
          /\ IF res.success
             THEN /\ svc' = [svc EXCEPT ![w].gids_from_files = GidsOf(res.data.records),
                                        ![w].gid_records = res.data.records,
                                        ![w].processed_files =
                                            {NameOf(f) : f \in ProcessedOf(tmp[get_temp_directory(r)].files)}]
                  /\ obj' = [obj EXCEPT ![w] = Extracted(@, res.data)]
                  /\ db' = [db EXCEPT ![r] = Extracted(obj[w], res.data)]
                  /\ pc' = [pc EXCEPT ![w] = "compare"]
                  /\ resp' = NoResponse
                  /\ UNCHANGED <<wrun, seen, tmp>>
             ELSE FailRun(w, res.message, tmp[get_temp_directory(r)])
    /\ UNCHANGED <<disc, pfiles, users, srcdir, out>>
    /\ UNCHANGED aux

\* stage 3: compare_with_user_gids, then discrepancy_count; db_ok = FALSE is
\* a database error raised by the user query, caught by run_full_analysis
Compare(w, db_ok) ==
    /\ pc[w] = "compare"
    /\ LET r == wrun[w]
           res == compare_with_user_gids(svc[w].gids_from_files, svc[w].gid_records, users)
       IN /\ stages' = [stages EXCEPT ![w] = Append(@, "compare")]
          /\ IF ~db_ok
             THEN /\ cache' = [cache EXCEPT ![r] = update_progress("comparing", 0)]
                  /\ FailRun(w, "analysis_exception", tmp[get_temp_directory(r)])
                  /\ UNCHANGED disc
             ELSE /\ cache' = [cache EXCEPT ![r] = CompareProgress(res)]
                  /\ disc' = ReplaceRows(disc, r, res)
                  /\ IF res.success
                     THEN /\ svc' = [svc EXCEPT ![w].unmatched = res.data.unmatched_gids]
                          /\ obj' = [obj EXCEPT ![w] = Compared(@, res.data)]
                          /\ db' = [db EXCEPT ![r] = Compared(obj[w], res.data)]
                          /\ pc' = [pc EXCEPT ![w] = "save"]
                          /\ resp' = NoResponse
                          /\ UNCHANGED <<wrun, seen, tmp>>
                     ELSE FailRun(w, res.message, tmp[get_temp_directory(r)])
    /\ UNCHANGED <<pfiles, users, srcdir, out>>
    /\ UNCHANGED aux

\* stage 4: save_outputs, then status = 'completed'
SaveOutputs(w, fail_at) ==
    /\ pc[w] = "save"
    /\ LET r == wrun[w]
           res == save_outputs_result(fail_at)
       IN /\ stages' = [stages EXCEPT ![w] = Append(@, "save")]
          /\ cache' = [cache EXCEPT ![r] = SaveProgress(fail_at)]
          /\ out' = save_outputs(out, tmp[get_temp_directory(r)], obj[w], r, users, svc[w].gid_records, disc,
                               env, fail_at)
          /\ IF res.success
             THEN /\ obj' = [obj EXCEPT ![w] = Completed(@)]
                  /\ db' = [db EXCEPT ![r] = Completed(obj[w])]
                  /\ pc' = [pc EXCEPT ![w] = "finish"]
                  /\ resp' = NoResponse
                  /\ UNCHANGED <<wrun, svc, seen, tmp>>
             ELSE FailRun(w, res.message, tmp[get_temp_directory(r)])
    /\ UNCHANGED <<disc, pfiles, users, srcdir>>
    /\ UNCHANGED aux

\* final progress, cleanup_temp_directory, the success result; the view then
\* saves status = 'email_pending' and answers
Finish(w) ==
    /\ pc[w] = "finish"
    /\ cache' = [cache EXCEPT ![wrun[w]] = update_progress("completed", 100)]
    /\ tmp' = [tmp EXCEPT ![get_temp_directory(wrun[w])] = IF svc[w].temp_dir THEN EmptyDir ELSE @]
    /\ db' = [db EXCEPT ![wrun[w]] = [obj[w] EXCEPT !.status = "email_pending"]]
    /\ resp' = RunResponse(TRUE, None)
    /\ Release(w)
    /\ UNCHANGED <<disc, pfiles, users, srcdir, out, stages>>
    /\ UNCHANGED aux

\* the worker process dies in the middle of the request
Crash(w) ==
    /\ pc[w] # "idle"
    /\ Release(w)
    /\ resp' = NoResponse
    /\ UNCHANGED <<db, disc, pfiles, users, cache, srcdir, tmp, out, stages>>
    /\ UNCHANGED aux

-----------------------------------------------------------------------------
(* views.ad_log_send_email *)

EmailResponse(ok, msg) == [op |-> "email", success |-> ok, error |-> msg]

\* the answer of the view; sent = FALSE: EmailMessage.send raises
send_email_response(to, subject, sent) ==
    IF to = "" THEN EmailResponse(FALSE, "no_recipient")
    ELSE IF subject = "" THEN EmailResponse(FALSE, "empty_subject")
    ELSE IF ~sent THEN EmailResponse(FALSE, "send_failed")
    ELSE EmailResponse(TRUE, None)

\* send_email_row that records a failed send on the run
\* (C9_FailedSendLeavesRun depends on the except branch saving nothing)
send_email_row_recording(a, to, subject, body, sent) ==
    IF send_email_response(to, subject, sent).success
    THEN [a EXCEPT !.status = "email_sent"]
    ELSE [a EXCEPT !.status = "failed",
                   !.error_message = send_email_response(to, subject, sent).error]

\* the row after the view: saved with status email_sent only after the send
send_email_row(a, to, subject, body, sent) ==
    IF send_email_response(to, subject, sent).success
    THEN [a EXCEPT !.status = "email_sent"]
    ELSE a

SendEmail(w, r, to, subject, body, sent) ==
    /\ pc[w] = "idle"
    /\ db' = [db EXCEPT ![r] = send_email_row(@, to, subject, body, sent)]
    /\ resp' = send_email_response(to, subject, sent)
    /\ UNCHANGED <<disc, pfiles, users, cache, srcdir, tmp, out, pc, wrun, obj, svc, seen, stages>>
    /\ UNCHANGED aux

-----------------------------------------------------------------------------
(* The user directory is maintained outside the pipeline *)

UserDirectoryChange(g) ==
    /\ users' = IF g \in users THEN users \ {g} ELSE users \cup {g}
    /\ resp' = NoResponse
    /\ UNCHANGED <<db, disc, pfiles, cache, srcdir, tmp, out, pc, wrun, obj, svc, seen, stages>>
    /\ UNCHANGED aux

-----------------------------------------------------------------------------
(* Spec: requests are handled one at a time (worker 1); the operator works *)
(* on run 1 while run 2 stays as the earlier analysis left it.             *)

Next ==
    \/ Trigger(1, 1)
    \/ Start(1)
    \/ Download(1)
    \/ Process(1)
    \/ \E db_ok \in BOOLEAN : Compare(1, db_ok)
    \/ \E fail_at \in 0..4 : SaveOutputs(1, fail_at)
    \/ Finish(1)
    \/ Crash(1)
    \/ \E to \in {"", "it@corp"}, subject \in {"AD report"}, body \in {"body"}, sent \in BOOLEAN :
          SendEmail(1, 1, to, subject, body, sent)
    \/ \E g \in Gids : UserDirectoryChange(g)

Spec == Init /\ [][Next]_vars

-----------------------------------------------------------------------------
(* SpecShare: the pipeline on run 1 while files on the source share are    *)
(* re-exported under the same name                                         *)

ReExport(f) ==
    /\ f \in srcdir
    /\ f.rev = 1
    /\ srcdir' = (srcdir \ {f}) \cup {[f EXCEPT !.rev = 2]}
    /\ resp' = NoResponse
    /\ UNCHANGED <<db, disc, pfiles, users, cache, tmp, out, pc, wrun, obj, svc, seen, stages>>
    /\ UNCHANGED aux

InitShare ==
    /\ \E per \in Periods : InitStore("share", per)
    /\ \E S \in SUBSET Gids : users = S \cup {""}
    /\ srcdir \in {S \in SUBSET {f \in Files : f.rev = 1} : Cardinality(S) <= MaxSrcFiles}
    /\ InitWorkers
    /\ InitAux

NextShare ==
    \/ Trigger(1, 1)
    \/ Start(1)
    \/ Download(1)
    \/ Process(1)
    \/ \E db_ok \in BOOLEAN : Compare(1, db_ok)
    \/ \E fail_at \in 0..4 : SaveOutputs(1, fail_at)
    \/ Finish(1)
    \/ \E f \in Files : ReExport(f)

SpecShare == InitShare /\ [][NextShare]_vars

-----------------------------------------------------------------------------
(* SpecOutputs: the pipeline on run 1 in the deployments the import guards *)
(* allow for, started in the minute of the earlier run or in a later one.  *)
(* Where pandas is installed it is the reader of every file.               *)

InitOutputs ==
    /\ InitStore("share", SharePeriod)
    /\ \E S \in SUBSET Gids : users = S \cup {""}
    /\ srcdir \in {S \in SUBSET {f \in Files : f.rev = 1} : Cardinality(S) <= MaxSrcFiles}
    /\ InitWorkers
    /\ \E libs \in {AllLibraries,
                     [openpyxl |-> FALSE, pandas |-> TRUE],
                     [openpyxl |-> FALSE, pandas |-> FALSE]}, now \in Minutes : env = Deployment(libs, now)
    /\ paths = NoRows
    /\ saver = NoSaver
    /\ fn = NoCall
    /\ poll = NoPoll

NextOutputs ==
    \/ Trigger(1, 1)
    \/ Start(1)
    \/ Download(1)
    \/ Process(1)
    \/ \E db_ok \in BOOLEAN : Compare(1, db_ok)
    \/ \E fail_at \in 0..4 : SaveOutputs(1, fail_at)
    \/ Finish(1)

SpecOutputs == InitOutputs /\ [][NextOutputs]_vars

-----------------------------------------------------------------------------
(* Service methods applied on their own.  The pipeline is at rest: run 1   *)
(* pending, run 2 as the earlier analysis left it.                         *)

InitAtRest ==
    /\ InitStore("share", SharePeriod)
    /\ users = {""}
    /\ InitWorkers

Call(op, args) == [op |-> op, args |-> args, done |-> FALSE, ret |-> <<>>]

Return(call, ret) == [call EXCEPT !.done = TRUE, !.ret = ret]

-----------------------------------------------------------------------------
(* SpecNames: get_expected_filenames(year, month) *)

InitNames ==
    /\ InitAtRest
    /\ srcdir = {}
    /\ env = Deployment(AllLibraries, LaterMinute)
    /\ paths = NoRows
    /\ saver = NoSaver
    /\ \E y \in {1900, 2000, 2023, 2024, 2025, 2100}, m \in 1..12 : fn = Call("get_expected_filenames", <<y, m>>)
    /\ poll = NoPoll

ExpectedFilenames ==
    /\ fn.op = "get_expected_filenames"
    /\ ~fn.done
    /\ fn' = Return(fn, get_expected_filenames(fn.args[1], fn.args[2]))
    /\ UNCHANGED <<store, env, paths, saver, poll>>

NextNames == ExpectedFilenames

SpecNames == InitNames /\ [][NextNames]_vars

-----------------------------------------------------------------------------
(* SpecMatcher: download_files_to_temp(source_path, year, month) on a      *)
(* source directory that holds the exports of days 1..n in some of the    *)
(* three extensions                                                        *)

ExportsOf(per, n, exts) ==
    {[year |-> per[1], month |-> per[2], day |-> d, ext |-> e, rev |-> 1] :
        d \in 1..n, e \in exts}

InitMatcher ==
    /\ InitAtRest
    /\ env = Deployment(AllLibraries, LaterMinute)
    /\ paths = NoRows
    /\ saver = NoSaver
    /\ \E per \in {SharePeriod, <<2024, 2>>}, n \in 0..31, exts \in (SUBSET ExtSet) \ {{}} :
          /\ srcdir = ExportsOf(per, n, exts)
          /\ fn = Call("download_files_to_temp", <<"share", per[1], per[2]>>)
          /\ poll = NoPoll

DownloadFilesToTemp ==
    /\ fn.op = "download_files_to_temp"
    /\ ~fn.done
    /\ LET res == download_files_to_temp(fn.args[1], srcdir, fn.args[2], fn.args[3])
       IN /\ fn' = Return(fn, res)
          /\ tmp' = [tmp EXCEPT ![1] =
                       [exists |-> TRUE,
                        files |-> IF res.success THEN res.data.downloaded_files ELSE {}]]
    /\ UNCHANGED <<db, disc, pfiles, users, cache, srcdir, out, pc, wrun, obj, svc, seen,
                   stages, resp>>
    /\ UNCHANGED <<env, paths, saver, poll>>

NextMatcher == DownloadFilesToTemp

SpecMatcher == InitMatcher /\ [][NextMatcher]_vars

-----------------------------------------------------------------------------
(* views.ad_log_progress: event_stream.  One iteration of the loop is two  *)
(* steps, the cache read and the status read, so that the worker can move  *)
(* between them.  timeout_counter counts sleeps of half a second.          *)

max_timeout == 300
SleepsPerSecond == 2

\* the loop's ceiling in sleeps
PollCeiling == max_timeout * SleepsPerSecond

\* statuses at which the stream sends its final event
Finished == {"email_pending", "completed", "failed"}

\* cache.get: NoProgress stands for an absent key, which is falsy
NewProgress(current_progress, last_progress) ==
    current_progress # NoProgress /\ current_progress # last_progress

\* StopsAt without the inner test on the step
\* (C21_PollStopsOnTerminalRecordOnly depends on the inner test)
StopsAt_any_hundred(current_progress) ==
    current_progress.step = "completed" \/ current_progress.progress = 100

\* the record at which the loop breaks
StopsAt(current_progress) ==
    /\ current_progress.step = "completed" \/ current_progress.progress = 100
    /\ current_progress.step \in {"saving", "completed"}

\* final_data
FinalEvent(status) ==
    [kind |-> "final", step |-> "completed", progress |-> 100, status |-> status]

RecordEvent(current_progress) ==
    [kind |-> "record", step |-> current_progress.step,
     progress |-> current_progress.progress, status |-> None]

\* slept without the addition
\* (C22_PollLoopEnds depends on the counter growing)
slept_still(timeout_counter) == timeout_counter

\* timeout_counter += 0.5, in sleeps
slept(timeout_counter) == timeout_counter + 1

\* get_object_or_404 and the locals of event_stream
Connect(r) ==
    /\ poll = NoPoll
    /\ poll' = [at |-> "cache", pk |-> r, last_progress |-> NoProgress,
                timeout_counter |-> 0, sent |-> None, why |-> None]
    /\ UNCHANGED <<store, env, paths, saver, fn>>

\* the cache half of an iteration: a new record is sent, and a terminal one
\* ends the stream
PollCache ==
    /\ poll # NoPoll
    /\ poll.at = "cache"
    /\ LET current_progress == cache[poll.pk]
       IN IF NewProgress(current_progress, poll.last_progress)
          THEN poll' = [poll EXCEPT !.sent = RecordEvent(current_progress),
                                    !.last_progress = current_progress,
                                    !.at = IF StopsAt(current_progress) THEN "done" ELSE "status",
                                    !.why = IF StopsAt(current_progress) THEN "record" ELSE @]
          ELSE poll' = [poll EXCEPT !.at = "status"]
    /\ UNCHANGED <<store, env, paths, saver, fn>>

\* the status half: refresh_from_db, the final event, or the sleep and the
\* test of the while
PollStatus(ceiling) ==
    /\ poll # NoPoll
    /\ poll.at = "status"
    /\ IF db[poll.pk].status \in Finished
       THEN poll' = [poll EXCEPT !.sent = FinalEvent(db[poll.pk].status),
                                 !.at = "done", !.why = "status"]
       ELSE poll' = [poll EXCEPT !.timeout_counter = slept(@),
                                 !.at = IF slept(poll.timeout_counter) < ceiling
                                        THEN "cache" ELSE "done",
                                 !.why = IF slept(poll.timeout_counter) < ceiling
                                         THEN @ ELSE "timeout"]
    /\ UNCHANGED <<store, env, paths, saver, fn>>

-----------------------------------------------------------------------------
(* SpecTimeout: the stream of run 1 beside a worker of which nothing is    *)
(* assumed: at any moment the progress key holds a record (not started,   *)
(* a stage at its end, the terminal one) or none, and the run is unstarted,*)
(* in progress or failed.                                                  *)

AnyProgress ==
    {NoProgress, update_progress("downloading", 0), update_progress("downloading", 100),
     update_progress("completed", 100)}

InitTimeout ==
    /\ InitAtRest
    /\ srcdir = {}
    /\ env = Deployment(AllLibraries, LaterMinute)
    /\ paths = NoRows
    /\ saver = NoSaver
    /\ fn = NoCall
    /\ poll = NoPoll

\* whatever the worker does to the key and the row of the run
AnyWorker(record, status) ==
    /\ cache' = [cache EXCEPT ![1] = record]
    /\ db' = [db EXCEPT ![1].status = status]
    /\ UNCHANGED <<disc, pfiles, users, srcdir, tmp, out, pc, wrun, obj, svc, seen, stages, resp>>
    /\ UNCHANGED aux

PollStep == PollCache \/ PollStatus(PollCeiling)

NextTimeout ==
    \/ Connect(1)
    \/ PollCache
    \/ PollStatus(PollCeiling)
    \/ \E record \in AnyProgress, status \in {"pending", "processing", "failed"} : AnyWorker(record, status)

SpecTimeout == InitTimeout /\ [][NextTimeout]_vars

\* the server keeps running the generator while the client is connected
SpecTimeoutFair == SpecTimeout /\ WF_vars(PollStep)

-----------------------------------------------------------------------------
(* SpecPoll: the stream of run 1 beside the pipeline on run 1.  The run is *)
(* new, or an earlier attempt failed because the share held no file of the *)
(* period; the file of day 1 has been exported since.  The client opens   *)
(* the stream at any moment and follows it for MaxPolls sleeps at most.    *)

MaxPolls == 3

EarlierMessage == "no_files_for_period"

\* what the failed attempt left: the row, its last progress record and the
\* empty working directory
EarlierAttempt == Failed(NewAnalysis("share", SharePeriod), EarlierMessage)

InitPoll ==
    /\ InitStore("share", SharePeriod)
    /\ users = {""}
    /\ srcdir = {[year |-> SharePeriod[1], month |-> SharePeriod[2], day |-> 1,
                  ext |-> "xlsx", rev |-> 1]}
    /\ InitWorkers
    /\ env = Deployment(AllLibraries, LaterMinute)
    /\ paths = NoRows
    /\ saver = NoSaver
    /\ fn = NoCall
    /\ poll = NoPoll

\* the earlier attempt has run before the first state
InitPollRetry ==
    /\ db = [r \in Runs |-> IF r = 1 THEN EarlierAttempt ELSE EarlierAnalysis(SharePeriod)]
    /\ out = save_outputs(EmptyOut, [exists |-> TRUE, files |-> EarlierFiles],
                          EarlierAnalysis(SharePeriod), 2, EarlierUsers,
                          RecordsOf(EarlierFiles), EarlierRows,
                          Deployment(AllLibraries, EarlierMinute), 0)
    /\ disc = EarlierRows
    /\ pfiles = EmptyBag
    /\ cache = [r \in Runs |-> IF r = 1 THEN DownloadProgress(error(EarlierMessage))
                                ELSE update_progress("completed", 100)]
    /\ tmp = [r \in Runs |-> IF r = 1 THEN left_on_failure([exists |-> TRUE, files |-> {}])
                              ELSE EmptyDir]
    /\ users = {""}
    /\ srcdir = {[year |-> SharePeriod[1], month |-> SharePeriod[2], day |-> 1,
                  ext |-> "xlsx", rev |-> 1]}
    /\ InitWorkers
    /\ env = Deployment(AllLibraries, LaterMinute)
    /\ paths = NoRows
    /\ saver = NoSaver
    /\ fn = NoCall
    /\ poll = NoPoll

NextPoll ==
    \/ Trigger(1, 1)
    \/ Start(1)
    \/ Download(1)
    \/ Process(1)
    \/ \E db_ok \in BOOLEAN : Compare(1, db_ok)
    \/ \E fail_at \in 0..4 : SaveOutputs(1, fail_at)
    \/ Finish(1)
    \/ Connect(1)
    \/ PollCache
    \/ PollStatus(MaxPolls)

SpecPoll == (InitPoll \/ InitPollRetry) /\ [][NextPoll]_vars

-----------------------------------------------------------------------------
(* SpecRuns: two new runs of the period, run w handled by worker w, both   *)
(* pipelines at the same time                                              *)

InitRuns ==
    /\ db = [r \in Runs |-> NewAnalysis("share", SharePeriod)]
    /\ out = EmptyOut
    /\ disc = EmptyBag
    /\ pfiles = EmptyBag
    /\ cache = [r \in Runs |-> NoProgress]
    /\ tmp = [r \in Runs |-> EmptyDir]
    /\ users = {"", "g1"}
    /\ srcdir \in {S \in SUBSET {f \in Files : f.rev = 1 /\ f.ext # "xlsm"} :
                       Cardinality(S) <= MaxSrcFiles}
    /\ InitWorkers
    /\ InitAux

NextRuns ==
    \E w \in Workers :
        \/ Trigger(w, w)
        \/ Start(w)
        \/ Download(w)
        \/ Process(w)
        \/ \E db_ok \in BOOLEAN : Compare(w, db_ok)
        \/ \E fail_at \in 0..4 : SaveOutputs(w, fail_at)
        \/ Finish(w)

SpecRuns == InitRuns /\ [][NextRuns]_vars

-----------------------------------------------------------------------------
(* SpecRetry: the pipeline on run 1, triggered again after a failure,      *)
(* while exports are withdrawn from the source share                       *)

Withdraw(f) ==
    /\ f \in srcdir
    /\ srcdir' = srcdir \ {f}
    /\ resp' = NoResponse
    /\ UNCHANGED <<db, disc, pfiles, users, cache, tmp, out, pc, wrun, obj, svc, seen, stages>>
    /\ UNCHANGED aux

InitRetry ==
    /\ InitStore("share", SharePeriod)
    /\ \E S \in SUBSET Gids : users = S \cup {""}
    /\ srcdir \in {S \in SUBSET {f \in Files : f.rev = 1} : Cardinality(S) <= MaxSrcFiles}
    /\ InitWorkers
    /\ InitAux

NextRetry ==
    \/ Trigger(1, 1)
    \/ Start(1)
    \/ Download(1)
    \/ Process(1)
    \/ \E db_ok \in BOOLEAN : Compare(1, db_ok)
    \/ \E fail_at \in 0..4 : SaveOutputs(1, fail_at)
    \/ Finish(1)
    \/ \E f \in Files : Withdraw(f)

SpecRetry == InitRetry /\ [][NextRetry]_vars

-----------------------------------------------------------------------------
(* SpecOverlap: trigger requests for run 1 arrive at two workers of the    *)
(* server                                                                  *)

InitOverlap ==
    /\ InitStore("share", SharePeriod)
    /\ users = {""}
    /\ srcdir = {[year |-> SharePeriod[1], month |-> SharePeriod[2], day |-> 1,
                  ext |-> "xlsx", rev |-> 1]}
    /\ InitWorkers
    /\ InitAux

NextOverlap ==
    \E w \in Workers :
        \/ Trigger(w, 1)
        \/ Start(w)
        \/ Download(w)
        \/ Process(w)
        \/ \E db_ok \in BOOLEAN : Compare(w, db_ok)
        \/ \E fail_at \in 0..4 : SaveOutputs(w, fail_at)
        \/ Finish(w)

SpecOverlap == InitOverlap /\ [][NextOverlap]_vars

-----------------------------------------------------------------------------
(* PathDefinition.save and ADLogEmailTemplate.save.  A table is the        *)
(* sequence of its rows, a row's pk its index; of a row only usage_type    *)
(* and is_default matter here.  pk = 0 is the pk None of a new instance.   *)

MaxRows == 2
Tables == {"PathDefinition", "ADLogEmailTemplate"}
UsageTypes == {"AD_LOG", "OTHER"}
Requests == {1, 2}

Row(ut, dflt) == [usage_type |-> ut, is_default |-> dflt]

\* the rows objects.filter(usage_type=..., is_default=True).exclude(pk=...)
\* selects
OtherDefaults(rows, pk, ut) ==
    {k \in DOMAIN rows : k # pk /\ rows[k].usage_type = ut /\ rows[k].is_default}

\* save without the update of the other defaults
\* (C19_OneDefaultPerUsageType depends on it)
clear_other_defaults_not(rows, pk, ut) == rows

\* .update(is_default=False) on them
clear_other_defaults(rows, pk, ut) ==
    [k \in DOMAIN rows |->
        IF k \in OtherDefaults(rows, pk, ut) THEN [rows[k] EXCEPT !.is_default = FALSE]
        ELSE rows[k]]

\* super().save(): INSERT of a new instance, UPDATE of the row otherwise
super_save(rows, pk, row) ==
    IF pk = 0 THEN Append(rows, row) ELSE [rows EXCEPT ![pk] = row]

save(rows, pk, row) ==
    super_save(IF row.is_default THEN clear_other_defaults(rows, pk, row.usage_type)
               ELSE rows,
               pk, row)

\* the pk the instance has after super().save()
SavedPk(rows, pk) == IF pk = 0 THEN Len(rows) + 1 ELSE pk

-----------------------------------------------------------------------------
(* SpecSaves: the create and update requests of the two tables, one after  *)
(* the other.  fn holds the last save, its instance and how many other     *)
(* rows its update cleared.                                                *)

InitSaves ==
    /\ InitAtRest
    /\ srcdir = {}
    /\ env = Deployment(AllLibraries, LaterMinute)
    /\ paths = NoRows
    /\ saver = NoSaver
    /\ fn = NoCall
    /\ poll = NoPoll

Save(t, pk, ut, dflt) ==
    /\ pk \in 0..Len(paths[t])
    /\ pk = 0 => Len(paths[t]) < MaxRows
    /\ paths' = [paths EXCEPT ![t] = save(@, pk, Row(ut, dflt))]
    /\ fn' = Return(Call("save", <<t, SavedPk(paths[t], pk), ut, dflt>>),
                    IF dflt THEN Cardinality(OtherDefaults(paths[t], pk, ut)) ELSE 0)
    /\ UNCHANGED <<store, env, saver, poll>>

NextSaves ==
    \E t \in Tables, pk \in 0..MaxRows, ut \in UsageTypes, dflt \in BOOLEAN :
        Save(t, pk, ut, dflt)

SpecSaves == InitSaves /\ [][NextSaves]_vars

-----------------------------------------------------------------------------
(* SpecSavers: two requests that save path entries at the same time.  No  *)
(* transaction and no lock surrounds save(), so the statements of two     *)
(* saves interleave: the form builds the instance, save() updates the      *)
(* other defaults, then super().save() writes the row.                     *)

NoSave == [at |-> "idle"]

Creating(t) == {q \in Requests : saver[q].at # "idle" /\ saver[q].table = t /\ saver[q].pk = 0}

InitSavers ==
    /\ InitAtRest
    /\ srcdir = {}
    /\ env = Deployment(AllLibraries, LaterMinute)
    /\ paths = NoRows
    /\ saver = [q \in Requests |-> NoSave]
    /\ fn = NoCall
    /\ poll = NoPoll

\* form.save(): the instance loaded or new, with the posted fields
BeginSave(q, t, pk, ut, dflt) ==
    /\ saver[q].at = "idle"
    /\ pk \in 0..Len(paths[t])
    /\ pk = 0 => Len(paths[t]) + Cardinality(Creating(t)) < MaxRows
    /\ saver' = [saver EXCEPT ![q] = [at |-> "clear", table |-> t, pk |-> pk,
                                      row |-> Row(ut, dflt)]]
    /\ UNCHANGED <<store, env, paths, fn, poll>>

\* if self.is_default: ... .update(is_default=False)
ClearOthers(q) ==
    /\ saver[q].at = "clear"
    /\ paths' = [paths EXCEPT ![saver[q].table] =
                    IF saver[q].row.is_default
                    THEN clear_other_defaults(@, saver[q].pk, saver[q].row.usage_type)
                    ELSE @]
    /\ saver' = [saver EXCEPT ![q].at = "write"]
    /\ UNCHANGED <<store, env, fn, poll>>

\* super().save(*args, **kwargs)
SuperSave(q) ==
    /\ saver[q].at = "write"
    /\ paths' = [paths EXCEPT ![saver[q].table] = super_save(@, saver[q].pk, saver[q].row)]
    /\ fn' = Return(Call("save", <<saver[q].table,
                                   SavedPk(paths[saver[q].table], saver[q].pk),
                                   saver[q].row.usage_type, saver[q].row.is_default>>),
                    None)
    /\ saver' = [saver EXCEPT ![q] = NoSave]
    /\ UNCHANGED <<store, env, poll>>

NextSavers ==
    \/ \E q \in Requests, pk \in 0..MaxRows, ut \in UsageTypes, dflt \in BOOLEAN :
          BeginSave(q, "PathDefinition", pk, ut, dflt)
    \/ \E q \in Requests : ClearOthers(q)
    \/ \E q \in Requests : SuperSave(q)

SpecSavers == InitSavers /\ [][NextSavers]_vars

-----------------------------------------------------------------------------
(* Properties *)

StageOrder == <<"download", "process", "compare", "save">>

InPipeline == {"download", "process", "compare", "save", "finish"}

PastDownloading == {"processing", "comparing", "completed", "email_pending", "email_sent"}

\* the messages each stage can fail with
StageMessages(stage) ==
    CASE stage = "download" -> {"source_missing", "no_files_for_period"}
      [] stage = "process"  -> {"temp_dir_missing", "no_excel_in_temp"}
      [] stage = "compare"  -> {"process_excel_first", "analysis_exception"}
      [] stage = "save"     -> {"save_error"}

\* the stage method worker w calls in this step, if it calls one
StageRuns(w, stage) == stages'[w] = Append(stages[w], stage)

\* C1 (as claimed): every change of a run's persisted status moves to a later
\* state of the order pending < downloading < processing < comparing <
\* completed < email_pending < email_sent or sets failed; leaving failed on a
\* re-trigger is not counted as a move back.
C1_StatusOnlyAdvances ==
    [][\A r \in Runs :
        db'[r].status # db[r].status =>
            \/ db'[r].status = "failed"
            \/ db[r].status = "failed"
            \/ Rank(db'[r].status) > Rank(db[r].status)]_vars

\* C2: the stages of an invocation run in the order download, process,
\* compare, save; a stage that reports an error ends the invocation with
\* status failed and that stage's message, which is also the answer; a stage
\* whose own check fails is not followed by another; status completed is only
\* set by an invocation that called all four stages.
C2_StagesInOrderFailureStops ==
    [][\A w \in Workers :
        /\ (stages'[w] # stages[w] /\ stages'[w] # <<>>) =>
              /\ \E i \in 1..Len(StageOrder) :
                    /\ stages'[w] = SubSeq(StageOrder, 1, i)
                    /\ stages[w] = SubSeq(StageOrder, 1, i - 1)
                    /\ (pc'[w] = "idle") =>
                          /\ db'[wrun[w]].status = "failed"
                          /\ db'[wrun[w]].error_message \in StageMessages(StageOrder[i])
                          /\ resp' = RunResponse(FALSE, db'[wrun[w]].error_message)
                    /\ (pc'[w] # "idle") =>
                          /\ db'[wrun[w]].status # "failed"
                          /\ i < Len(StageOrder) => db'[wrun[w]].status # "completed"
        /\ (StageRuns(w, "download") /\ obj[w].source_path # "share") => pc'[w] = "idle"
        /\ (StageRuns(w, "process") /\ tmp[wrun[w]].files = {}) => pc'[w] = "idle"
        /\ (pc[w] # "idle" /\ db'[wrun[w]].status = "completed"
                /\ db[wrun[w]].status # "completed") => stages'[w] = StageOrder]_vars

C2_Witness ==
    /\ pc[1] = "idle"
    /\ db[1].status = "failed"
    /\ db[1].error_message = "save_error"
    /\ stages[1] = StageOrder
    /\ resp = RunResponse(FALSE, "save_error")

\* C3 (as claimed): the pipeline is never executed for a trigger that found
\* the run in a status past downloading.
C3_PastDownloadingRejected ==
    \A w \in Workers : pc[w] \in InPipeline => seen[w] \notin PastDownloading

\* C4 (as claimed): while run_full_analysis executes, the persisted status
\* names a stage whose method has already returned in this invocation.
C4_StatusNamesFinishedStage ==
    \A w \in Workers :
        pc[w] \in InPipeline =>
            LET s == db[wrun[w]].status
                done == {stages[w][i] : i \in DOMAIN stages[w]}
            IN /\ s = "downloading" => "download" \in done
               /\ s = "processing" => "process" \in done
               /\ s = "comparing" => "compare" \in done

\* C5: when the reconciler returns a result, its missing set is the distinct
\* identifiers of the extracted records minus the system set (so nothing of
\* the system set is in it, and it is the whole found set when the system set
\* is empty), and discrepancy_count is its size; it returns its own error
\* only when the records hold no identifier.
C5_MissingIsFoundMinusSystem ==
    [][\A w \in Workers :
        StageRuns(w, "compare") =>
            LET found == {svc[w].gid_records[i].gid : i \in DOMAIN svc[w].gid_records}
                system == {u \in users : u # ""}
            IN /\ pc'[w] = "save" =>
                    /\ svc'[w].unmatched = found \ system
                    /\ \A x \in system : x \notin svc'[w].unmatched
                    /\ system = {} => svc'[w].unmatched = found
                    /\ db'[wrun[w]].discrepancy_count = Cardinality(found \ system)
               /\ resp'.error = "process_excel_first" => found = {}]_vars

C5_Witness ==
    /\ pc[1] = "save"
    /\ svc[1].gids_from_files = {"g1", "g2"}
    /\ svc[1].unmatched = {"g2"}
    /\ db[1].discrepancy_count = 1

\* C6 (as claimed): after every call of the reconciler that gets to the end
\* of its own code, the run has exactly one row per identifier of the current
\* missing set, whatever rows it had before, and the rows of the other runs
\* are as they were.
C6_RowsAreCurrentMissingSet ==
    [][\A w \in Workers :
        (StageRuns(w, "compare") /\ resp'.error # "analysis_exception") =>
            LET r == wrun[w]
                found == {svc[w].gid_records[i].gid : i \in DOMAIN svc[w].gid_records}
                system == {u \in users : u # ""}
            IN /\ {x.gid : x \in RowsOf(disc', r)} = found \ system
               /\ \A x \in RowsOf(disc', r) : CopiesIn(x, disc') = 1
               /\ Cardinality(RowsOf(disc', r)) = Cardinality(found \ system)
               /\ \A q \in Runs \ {r} :
                     /\ RowsOf(disc', q) = RowsOf(disc, q)
                     /\ \A x \in RowsOf(disc, q) : CopiesIn(x, disc') = CopiesIn(x, disc)]_vars

\* C7 (as claimed): with at least one staged file and no identifier
\* extracted, the reconciliation succeeds with zero discrepancies and the
\* output stage is next; the run is not failed.
C7_EmptyExtractionContinues ==
    [][\A w \in Workers :
        (/\ StageRuns(w, "compare")
         /\ resp'.error # "analysis_exception"
         /\ tmp[wrun[w]].files # {}
         /\ svc[w].gid_records = <<>>) =>
            /\ pc'[w] = "save"
            /\ db'[wrun[w]].status # "failed"
            /\ db'[wrun[w]].discrepancy_count = 0
            /\ RowsOf(disc', wrun[w]) = {}]_vars

\* C8: when the source directory exists and holds no file under any expected
\* name of the month, the download stage ends the run with status failed and
\* the no-data message, no other stage is called, and no ProcessedADFile or
\* GIDDiscrepancy row is created.
C8_NoFilesAbortsAtDownload ==
    [][\A w \in Workers :
        (/\ StageRuns(w, "download")
         /\ obj[w].source_path = "share"
         /\ \A d \in 1..DaysInMonth(obj[w].year, obj[w].month), e \in ExtSet :
                \A f \in srcdir : ~(f.day = d /\ f.ext = e)) =>
            /\ db'[wrun[w]].status = "failed"
            /\ db'[wrun[w]].error_message = "no_files_for_period"
            /\ resp' = RunResponse(FALSE, "no_files_for_period")
            /\ pc'[w] = "idle"
            /\ stages'[w] = <<"download">>
            /\ disc' = disc
            /\ pfiles' = pfiles
            /\ tmp'[wrun[w]].files = tmp[wrun[w]].files]_vars

C8_Witness ==
    /\ srcdir = {}
    /\ db[1].status = "failed"
    /\ db[1].error_message = "no_files_for_period"
    /\ stages[1] = <<"download">>
    /\ resp = RunResponse(FALSE, "no_files_for_period")

\* C9: a sendEmail whose send fails (or whose input is refused) leaves every
\* run's row as it was: the status is not changed, error_message is not
\* written, and the error is only in the answer.
C9_FailedSendLeavesRun ==
    [][(resp'.op = "email" /\ ~resp'.success) =>
          /\ resp'.error # None
          /\ \A r \in Runs :
                /\ db'[r].status = db[r].status
                /\ db'[r].error_message = db[r].error_message
                /\ db'[r] = db[r]]_vars

C9_Witness ==
    /\ resp = EmailResponse(FALSE, "send_failed")
    /\ db[1].status = "email_pending"
    /\ db[1].error_message = None

C11_WorkingDirKeptUntilCompleted ==
    [][\A r \in Runs :
        /\ (tmp[r].exists /\ ~tmp'[r].exists) => db[r].status = "completed"
        /\ \A w \in Workers :
              (/\ wrun[w] = r
               /\ pc[w] # "idle"
               /\ pc'[w] = "idle"
               /\ db'[r].status = "failed") =>
                  /\ tmp[r].exists => (tmp'[r].exists /\ tmp[r].files \subseteq tmp'[r].files)
                  /\ svc[w].temp_dir => tmp'[r] = tmp[r]
                  /\ resp'.error # "source_missing" => tmp'[r].exists]_vars

C11_Witness ==
    /\ pc[1] = "idle"
    /\ db[1].status = "failed"
    /\ db[1].error_message = "save_error"
    /\ tmp[1].exists
    /\ tmp[1].files # {}

\* C12 (as claimed): when a run becomes completed it has one ProcessedADFile
\* row per file that yielded records, so the number of its ProcessedADFile
\* rows is its processed_files_count.
C12_ProcessedFileRowPerParsedFile ==
    [][\A r \in Runs :
        (db'[r].status = "completed" /\ db[r].status # "completed") =>
            LET rows == {x \in BagToSet(pfiles') : x.analysis = r}
            IN /\ Cardinality(rows) = db'[r].processed_files_count
               /\ \A x \in rows : CopiesIn(x, pfiles') = 1]_vars

\* the number a sequence of decimal digit characters stands for
RECURSIVE NumberOf(_)
NumberOf(chars) ==
    IF chars = <<>> THEN 0
    ELSE 10 * NumberOf(SubSeq(chars, 1, Len(chars) - 1))
         + (CHOOSE k \in 0..9 : DecimalDigits[k + 1] = chars[Len(chars)])

IsDigits(chars) ==
    \A i \in DOMAIN chars : \E k \in 0..9 : DecimalDigits[k + 1] = chars[i]

\* C14: for every year (of four digits) and month 1..12,
\* get_expected_filenames returns as many names as the month has days (31,
\* 30, or 28/29 for February by the leap-year rule), all distinct, the i-th
\* being EventExport_YYYY-MM-DD for day i with month and day in two digits.
C14_ExpectedNamesOfMonth ==
    (fn.op = "get_expected_filenames" /\ fn.done) =>
        LET y == fn.args[1]
            m == fn.args[2]
            names == fn.ret
            days == IF m \in {1, 3, 5, 7, 8, 10, 12} THEN 31
                    ELSE IF m \in {4, 6, 9, 11} THEN 30
                    ELSE IF (y % 4 = 0 /\ y % 100 # 0) \/ y % 400 = 0 THEN 29
                    ELSE 28
        IN /\ Len(names) = days
           /\ \A i, j \in 1..Len(names) : i # j => names[i] # names[j]
           /\ \A i \in 1..Len(names) :
                 /\ Len(names[i]) = 22
                 /\ SubSeq(names[i], 1, 12) =
                        <<"E", "v", "e", "n", "t", "E", "x", "p", "o", "r", "t", "_">>
                 /\ names[i][17] = "-"
                 /\ names[i][20] = "-"
                 /\ IsDigits(SubSeq(names[i], 13, 16))
                 /\ IsDigits(SubSeq(names[i], 18, 19))
                 /\ IsDigits(SubSeq(names[i], 21, 22))
                 /\ NumberOf(SubSeq(names[i], 13, 16)) = y
                 /\ NumberOf(SubSeq(names[i], 18, 19)) = m
                 /\ NumberOf(SubSeq(names[i], 21, 22)) = i

C14_Witness ==
    /\ fn.op = "get_expected_filenames"
    /\ fn.done
    /\ fn.args = <<2024, 2>>
    /\ Len(fn.ret) = 29
    /\ fn.ret[9] = <<"E", "v", "e", "n", "t", "E", "x", "p", "o", "r", "t", "_",
                     "2", "0", "2", "4", "-", "0", "2", "-", "0", "9">>

\* C13 (as claimed): the result of the matcher partitions the days of the
\* month: every expected base name is either staged, as exactly one file in
\* the first existing extension of .xlsx, .xls, .xlsm, or listed in the
\* returned not_found list, never both and never neither; and
\* downloaded_count + not_found_count is the number of days of the month.
C13_MatcherPartitionsDays ==
    (fn.op = "download_files_to_temp" /\ fn.done /\ fn.ret.success) =>
        LET expected == get_expected_filenames(fn.args[2], fn.args[3])
            data == fn.ret.data
            staged(base) == {f \in data.downloaded_files : BaseName(f) = base}
            listed(base) == \E k \in DOMAIN data.not_found_files :
                                data.not_found_files[k] = base
        IN /\ \A i \in DOMAIN expected :
                 /\ staged(expected[i]) # {} <=> ~listed(expected[i])
                 /\ Cardinality(staged(expected[i])) <= 1
                 /\ \A f \in staged(expected[i]) :
                       /\ f \in srcdir
                       /\ \A j \in 1..Len(Exts) :
                             Present(srcdir, expected[i], Exts[j]) => ExtIdx(f.ext) <= j
           /\ data.downloaded_count = Cardinality(data.downloaded_files)
           /\ data.downloaded_count + data.not_found_count = Len(expected)

C16_UnreadableFileIsSkipped ==
    [][\A w \in Workers :
        (/\ StageRuns(w, "process")
         /\ tmp[wrun[w]].exists
         /\ tmp[wrun[w]].files # {}) =>
            LET r == wrun[w]
                from(f) == SelectSeq(svc'[w].gid_records,
                                     LAMBDA rec : rec.source_file = NameOf(f))
                cells(f) == SelectSeq(CellsOf(f), LAMBDA c : strip(c) # "")
            IN /\ pc'[w] = "compare"
               /\ db'[r].status = "comparing"
               /\ \A f \in tmp[r].files :
                     IF Readable(f)
                     THEN /\ Len(from(f)) = Len(cells(f))
                          /\ \A i \in 1..Len(cells(f)) : from(f)[i].gid = strip(cells(f)[i])
                     ELSE /\ from(f) = <<>>
                          /\ NameOf(f) \notin svc'[w].processed_files
               /\ db'[r].processed_files_count = Cardinality(svc'[w].processed_files)
               /\ Len(svc'[w].gid_records) = db'[r].total_gids_found]_vars

C16_Witness ==
    /\ pc[1] = "compare"
    /\ \E f, g \in tmp[1].files :
          /\ ~Readable(f)
          /\ Readable(g)
          /\ NameOf(f) \notin svc[1].processed_files
          /\ NameOf(g) \in svc[1].processed_files
    /\ db[1].processed_files_count = 1
    /\ svc[1].gid_records # <<>>

\* C17 (as claimed): when the output stage has run, the run is completed
\* or failed; if it is failed the error message is the one of the writer
\* step that failed, and if it is completed all four artifacts have been
\* written by this run: the staged spreadsheets are in the excels folder, the
\* system-of-record export lists the current users with an identifier, the
\* unique-identifiers export lists the identifiers found, and there is a
\* text report of this run.
C17_CompletedHasAllArtifacts ==
    [][\A w \in Workers :
        StageRuns(w, "save") =>
            LET r == wrun[w]
            IN /\ db'[r].status \in {"completed", "failed"}
               /\ db'[r].status = "failed" => db'[r].error_message = "save_error"
               /\ db'[r].status = "completed" =>
                     /\ \A f \in tmp[r].files : f \in out'.excels
                     /\ out'.user_gids_file = {{u \in users : u # ""}}
                     /\ \E sheet \in out'.unique_gids_file :
                           {row.gid : row \in sheet} = svc[w].gids_from_files
                     /\ \E report \in out'.log_file :
                           /\ report.name.stamp = env.now
                           /\ report.unmatched = svc[w].unmatched]_vars

\* C18 (as claimed): whatever runs of the period and path entry have written
\* to the output folder, it holds at most one system-of-record export, one
\* unique-identifiers export and one text report: a later run overwrites the
\* artifacts of an earlier one.
C18_RerunOverwritesArtifacts ==
    /\ Cardinality(out.user_gids_file) <= 1
    /\ Cardinality(out.unique_gids_file) <= 1
    /\ Cardinality({report.name : report \in out.log_file}) <= 1

Defaults(t, ut) ==
    {k \in DOMAIN paths[t] : paths[t][k].usage_type = ut /\ paths[t][k].is_default}

\* C19: after any sequence of saves made one after the other (create, set or
\* clear the default flag, move a row to another usage type), each usage type
\* has at most one default PathDefinition and at most one default
\* ADLogEmailTemplate.
C19_OneDefaultPerUsageType ==
    \A t \in Tables, ut \in UsageTypes : Cardinality(Defaults(t, ut)) <= 1

C19_Witness ==
    /\ fn.op = "save"
    /\ fn.done
    /\ fn.args = <<"PathDefinition", 2, "AD_LOG", TRUE>>
    /\ fn.ret = 1
    /\ paths["PathDefinition"][1] = Row("AD_LOG", FALSE)
    /\ Defaults("PathDefinition", "AD_LOG") = {2}

\* C20 (as claimed): while saves interleave, no state has two default rows of
\* one usage type in a table, and once no save is under way a last writer
\* that set the flag on its row has the default of its usage type.
C20_DefaultSwitchIsAtomic ==
    /\ \A t \in Tables, ut \in UsageTypes :
          \A j, k \in Defaults(t, ut) : j = k
    /\ (/\ fn.op = "save"
        /\ fn.args[4]
        /\ \A q \in Requests : saver[q] = NoSave) =>
            Defaults(fn.args[1], fn.args[3]) = {fn.args[2]}

\* C22: whatever the worker does, a connected progress stream ends: while
\* it runs its counter is below the ceiling of 300 s in sleeps of 0.5 s, and
\* it always comes to its end, by a terminal record, a finished status or the
\* ceiling.
C22_PollLoopEnds ==
    /\ [](poll.at \in {"cache", "status"} => poll.timeout_counter < 600)
    /\ (poll.at \in {"cache", "status"}) ~> (poll.at = "done")

C22_Witness ==
    /\ poll.at = "done"
    /\ poll.why = "timeout"
    /\ poll.timeout_counter = 600
    /\ poll.sent = None

\* C21: in the cache half of an iteration of the progress stream, an absent
\* key sends nothing and goes on to the status read; a record with percent
\* 100 and stage saving or completed ends the stream; a record of any other
\* stage, whatever its percent, does not end it.
C21_PollStopsOnTerminalRecordOnly ==
    [][(poll.at = "cache" /\ poll'.at # "cache" /\ poll' # NoPoll) =>
        LET record == cache[poll.pk]
        IN /\ record = NoProgress =>
                 /\ poll'.at = "status"
                 /\ poll'.sent = poll.sent
           /\ (record.progress = 100 /\ record.step \in {"saving", "completed"}) =>
                 /\ poll'.at = "done"
                 /\ poll'.sent.step = record.step
           /\ (record # NoProgress /\ record.step \notin {"saving", "completed"}) =>
                 poll'.at = "status"]_vars

C21_Witness ==
    /\ poll.at = "status"
    /\ poll.last_progress = [step |-> "comparing", progress |-> 100]
    /\ poll.sent.kind = "record"
    /\ poll.sent.step = "comparing"

\* C23: while two runs with different pks execute at the same time, the
\* working directory and the progress key of a run change only in a step of
\* the worker that handles this run, and the records a run extracts are those
\* of the files its own download stage matched on the share.
C23_RunsKeepToTheirOwnDirectory ==
    [][/\ \A r \in Runs :
            (tmp'[r] # tmp[r] \/ cache'[r] # cache[r]) =>
                \E w \in Workers : wrun[w] = r /\ pc'[w] # pc[w]
       /\ \A w \in Workers :
            (StageRuns(w, "process") /\ pc'[w] = "compare") =>
                svc'[w].gid_records =
                    RecordsOf(Downloaded(srcdir,
                                         get_expected_filenames(obj[w].year, obj[w].month)))]_vars

C23_Witness ==
    /\ pc[1] = "compare"
    /\ pc[2] = "finish"
    /\ wrun[1] = 1
    /\ wrun[2] = 2
    /\ tmp[1].files # {}
    /\ tmp[2].files = tmp[1].files
    /\ svc[1].gid_records # <<>>

\* C24 (as claimed): over every sequence of invocations on a run, no step
\* decreases one of its counters processed_files_count, total_gids_found,
\* unique_gids_count and discrepancy_count, and a counter changes only in the
\* step of the stage that computes it.
C24_CountersNeverDecrease ==
    [][\A r \in Runs :
        /\ db'[r].processed_files_count >= db[r].processed_files_count
        /\ db'[r].total_gids_found >= db[r].total_gids_found
        /\ db'[r].unique_gids_count >= db[r].unique_gids_count
        /\ db'[r].discrepancy_count >= db[r].discrepancy_count
        /\ (\/ db'[r].processed_files_count # db[r].processed_files_count
            \/ db'[r].total_gids_found # db[r].total_gids_found
            \/ db'[r].unique_gids_count # db[r].unique_gids_count) =>
                \E w \in Workers : wrun[w] = r /\ StageRuns(w, "process")
        /\ db'[r].discrepancy_count # db[r].discrepancy_count =>
                \E w \in Workers : wrun[w] = r /\ StageRuns(w, "compare")]_vars

\* C25 (as claimed): when an accepted trigger returns its answer, the run is
\* in status email_pending if the answer is a success and failed if it is an
\* error; it is never left in downloading, processing or comparing.
C25_ReturnLeavesRunSettled ==
    [][\A w \in Workers :
        (pc[w] # "idle" /\ pc'[w] = "idle" /\ resp'.op = "run") =>
            /\ resp'.success => db'[wrun[w]].status = "email_pending"
            /\ ~resp'.success => db'[wrun[w]].status = "failed"]_vars

C27_OneExecutionPerRun ==
    /\ \A r \in Runs : Cardinality({w \in Workers : pc[w] # "idle" /\ wrun[w] = r}) <= 1
    /\ \A w \in Workers :
          pc[w] \in {"process", "compare", "save"} => tmp[get_temp_directory(wrun[w])].exists

\* C28 (as claimed): when the download stage of an invocation has staged its
\* files, the working directory, which the extraction reads in full and the
\* output stage copies in full, holds exactly the files that this download
\* staged from the source directory, and none left by an earlier attempt.
C28_ExtractsOnlyWhatItStaged ==
    [][\A w \in Workers :
        (StageRuns(w, "download") /\ pc'[w] = "process") =>
            tmp'[get_temp_directory(wrun[w])].files =
                Downloaded(srcdir, get_expected_filenames(obj[w].year, obj[w].month))]_vars

\* C29 (as claimed): when a run becomes completed, no identifier is both in
\* one of its discrepancy rows and in the system-of-record export written by
\* the run, also when the user directory changes while the run executes.
C29_ArtifactsAgreeWithReconciliation ==
    [][\A r \in Runs :
        (db'[r].status = "completed" /\ db[r].status # "completed") =>
            \A file \in out'.user_gids_file :
                {x.gid : x \in RowsOf(disc', r)} \cap file = {}]_vars

\* C30 (as claimed): the progress stream of a run does not send its final
\* event from what an earlier attempt left: when a trigger of the run whose
\* row is still the one of the earlier failed attempt is accepted, the stream
\* opened on that run has not already reported the end of the run.
C30_FinalEventOnlyForObservedInvocation ==
    [][\A w \in Workers, r \in Runs :
        (/\ pc[w] = "idle"
         /\ pc'[w] = "view"
         /\ wrun'[w] = r
         /\ db[r] = EarlierAttempt) =>
            ~(/\ poll.at = "done"
              /\ poll.pk = r
              /\ poll.sent.kind = "final")]_vars

====
